---- MODULE Spec2Model ----
(***************************************************************************)
(* Pipeline configuration resolution of the Woodpecker server              *)
(* (server/services/config, forge fetcher): the Resolution Service         *)
(* (forgeFetcher.Fetch), the per-attempt wrapper (forgeFetcherContext      *)
(* .fetch), the Cascade Resolver (getFirstAvailableConfig), the Candidate  *)
(* Filter (filterPipelineFiles) and the Uniqueness Validator               *)
(* (validateUniqueFileNames); and the grouping of secrets by prefix         *)
(* patterns (server/services/secret, GroupSecrets).                        *)
(*                                                                         *)
(* Go strings are sequences of characters, so that suffix tests, trimming, *)
(* splitting and case mapping are computed, not assumed.  A character is a *)
(* one-character string, or "U+" and its code point when it is not         *)
(* printable ASCII.                                                        *)
(* A nil slice and an empty slice are both the empty sequence.             *)
(***************************************************************************)
EXTENDS Naturals, Integers, Sequences, FiniteSets, TLC

----------------------------------------------------------------------------
(* Bounds *)

\* largest retry count (forgeFetcher.retryCount) the model configures
MaxRetry == 3

----------------------------------------------------------------------------
(* Go's strings package on character sequences *)

SetMax(S) == CHOOSE m \in S : \A n \in S : n <= m

SetMin(S) == CHOOSE m \in S : \A n \in S : m <= n

HasSuffix(s, suffix) ==
    /\ Len(s) >= Len(suffix)
    /\ SubSeq(s, Len(s) - Len(suffix) + 1, Len(s)) = suffix

TrimSuffix(s, suffix) ==
    IF HasSuffix(s, suffix) THEN SubSeq(s, 1, Len(s) - Len(suffix)) ELSE s

Contains(s, substr) ==
    \E k \in 1..(Len(s) + 1) :
        /\ k + Len(substr) - 1 <= Len(s)
        /\ SubSeq(s, k, k + Len(substr) - 1) = substr

\* the printable ASCII characters, from code point 32 to 126; the grave
\* accent (96) is written by its code point
AsciiPrintable ==
    << " ", "!", "\"", "#", "$", "%", "&", "'", "(", ")", "*", "+", ",", "-",
       ".", "/", "0", "1", "2", "3", "4", "5", "6", "7", "8", "9", ":", ";",
       "<", "=", ">", "?", "@", "A", "B", "C", "D", "E", "F", "G", "H", "I",
       "J", "K", "L", "M", "N", "O", "P", "Q", "R", "S", "T", "U", "V", "W",
       "X", "Y", "Z", "[", "\\", "]", "^", "_", "U+96", "a", "b", "c", "d", "e",
       "f", "g", "h", "i", "j", "k", "l", "m", "n", "o", "p", "q", "r", "s",
       "t", "u", "v", "w", "x", "y", "z", "{", "|", "}", "~" >>

\* string(rune(cp)) as one character of the model: itself when it is
\* printable ASCII or one of \t \n \f \r, otherwise named by its code point
\* (in decimal); a surrogate or a value past the last code point is U+FFFD
Rune(cp) ==
    IF cp \in 32..126 THEN AsciiPrintable[cp - 31]
    ELSE IF cp = 9 THEN "\t"
    ELSE IF cp = 10 THEN "\n"
    ELSE IF cp = 12 THEN "\f"
    ELSE IF cp = 13 THEN "\r"
    ELSE IF cp \in 55296..57343 \/ cp > 1114111 THEN "U+" \o ToString(65533)
    ELSE "U+" \o ToString(cp)

\* unicode.IsSpace: \t \n \v \f \r, space, U+0085, U+00A0, U+1680,
\* U+2000..U+200A, U+2028, U+2029, U+202F, U+205F, U+3000
WhiteSpace ==
    { Rune(cp) : cp \in (9..13) \cup {32, 133, 160, 5760} \cup (8192..8202)
                         \cup {8232, 8233, 8239, 8287, 12288} }

\* letters outside ASCII that the model knows: U+00C4 and U+00E4 (A with
\* diaeresis), U+0178 and U+00FF (y with diaeresis), U+0130 (capital dotted
\* I), U+0131 (dotless i), U+017F (long s), U+212A (Kelvin sign)
OtherLetters == { Rune(cp) : cp \in {196, 228, 376, 255, 304, 305, 383, 8490} }

\* the characters of the model's strings; the case mappings are defined on
\* these and on no others
Alphabet ==
    { AsciiPrintable[k] : k \in 1..Len(AsciiPrintable) } \cup WhiteSpace
        \cup OtherLetters

\* unicode.ToLower on the ASCII capitals
UpperToLower ==
    ("A" :> "a") @@ ("B" :> "b") @@ ("C" :> "c") @@ ("D" :> "d") @@
    ("E" :> "e") @@ ("F" :> "f") @@ ("G" :> "g") @@ ("H" :> "h") @@
    ("I" :> "i") @@ ("J" :> "j") @@ ("K" :> "k") @@ ("L" :> "l") @@
    ("M" :> "m") @@ ("N" :> "n") @@ ("O" :> "o") @@ ("P" :> "p") @@
    ("Q" :> "q") @@ ("R" :> "r") @@ ("S" :> "s") @@ ("T" :> "t") @@
    ("U" :> "u") @@ ("V" :> "v") @@ ("W" :> "w") @@ ("X" :> "x") @@
    ("Y" :> "y") @@ ("Z" :> "z")

\* unicode.ToLower on the other letters: U+0130 and the Kelvin sign have
\* ASCII lower-case forms
OtherToLower ==
    (Rune(196) :> Rune(228)) @@ (Rune(376) :> Rune(255)) @@
    (Rune(304) :> "i") @@ (Rune(8490) :> "k")

\* unicode.ToLower
ToLowerRune ==
    [c \in Alphabet |->
        IF c \in DOMAIN UpperToLower THEN UpperToLower[c]
        ELSE IF c \in DOMAIN OtherToLower THEN OtherToLower[c]
        ELSE c]

ToLower(s) == [k \in 1..Len(s) |-> ToLowerRune[s[k]]]

IsSpace(c) == c \in WhiteSpace

TrimSpace(s) ==
    LET keep == {k \in 1..Len(s) : ~IsSpace(s[k])}
    IN  IF keep = {} THEN <<>> ELSE SubSeq(s, SetMin(keep), SetMax(keep))

\* parts := strings.Split(s, "/"); parts[len(parts)-1]
LastSegment(s) ==
    LET seps == {k \in 1..Len(s) : s[k] = "/"}
    IN  IF seps = {} THEN s ELSE SubSeq(s, SetMax(seps) + 1, Len(s))

DotYml == <<".", "y", "m", "l">>

DotYaml == <<".", "y", "a", "m", "l">>

Slash == <<"/">>

TemplateWord == <<"t", "e", "m", "p", "l", "a", "t", "e">>

----------------------------------------------------------------------------
(* Errors *)

\* the nil error
Nil == [kind |-> "nil"]

ErrNotImplemented == [kind |-> "ErrNotImplemented"]

\* *types.ErrConfigNotFound carrying the candidates that were tried
ErrConfigNotFound(cfgs) == [kind |-> "ErrConfigNotFound", Configs |-> cfgs]

\* an error of the forge that is neither "not implemented" nor "not found"
ErrForge == [kind |-> "ErrForge"]

\* errors.Join(errs...)
Join(errs) == [kind |-> "Join", errs |-> errs]

\* fmt.Errorf("user defined config '%s' not found: %w", config, err)
ErrUserDefined(config, cause) ==
    [kind |-> "UserDefinedConfigNotFound", config |-> config, cause |-> cause]

\* fmt.Errorf("configFetcher: fallback did not find config: %w", err)
ErrFallback(cause) == [kind |-> "FallbackDidNotFindConfig", cause |-> cause]

\* fmt.Errorf("duplicate config file name '%s' found at paths: '%s' and '%s'", ...)
ErrDuplicate(fileName, existingPath, path) ==
    [kind |-> "DuplicateName", fileName |-> fileName,
     existingPath |-> existingPath, path |-> path]

\* ctx.Err() of a context that is done
CtxError(state) == [kind |-> state]

\* errors.Is(err, target) for a target identified by its kind: follows %w
\* wrapping and the members of a joined error
RECURSIVE ErrorsIs(_, _)
ErrorsIs(err, kind) ==
    \/ err.kind = kind
    \/ /\ err.kind \in {"UserDefinedConfigNotFound", "FallbackDidNotFindConfig"}
       /\ ErrorsIs(err.cause, kind)
    \/ /\ err.kind = "Join"
       /\ \E k \in 1..Len(err.errs) : ErrorsIs(err.errs[k], kind)

----------------------------------------------------------------------------
(* Candidate Filter and Uniqueness Validator *)

FileMeta(name, data) == [Name |-> name, Data |-> data]

\* variant: "template" is looked for in the name as it is spelled
IsPipelineFileCaseSensitive(file, ignoreTemplates) ==
    /\ HasSuffix(file.Name, DotYml) \/ HasSuffix(file.Name, DotYaml)
    /\ ~(ignoreTemplates /\ Contains(file.Name, TemplateWord))

IsPipelineFile(file, ignoreTemplates) ==
    /\ HasSuffix(file.Name, DotYml) \/ HasSuffix(file.Name, DotYaml)
    /\ ~(ignoreTemplates /\ Contains(ToLower(file.Name), TemplateWord))

\* variant: the kept entries are prepended, not appended
filterPipelineFilesReversed(fs, ignoreTemplates) ==
    LET kept == SelectSeq(fs, LAMBDA file : IsPipelineFile(file, ignoreTemplates))
    IN  [k \in 1..Len(kept) |-> kept[Len(kept) + 1 - k]]

filterPipelineFiles(fs, ignoreTemplates) ==
    SelectSeq(fs, LAMBDA file : IsPipelineFile(file, ignoreTemplates))

\* the logical name: extension stripped, then only the last path segment
LogicalName(name) ==
    LastSegment(TrimSuffix(TrimSuffix(name, DotYml), DotYaml))

\* the loop of validateUniqueFileNames from entry k on, seen being the map
\* from logical name to the path that introduced it
RECURSIVE ValidateFrom(_, _, _)
ValidateFrom(fs, k, seen) ==
    IF k > Len(fs) THEN Nil
    ELSE LET fileName == LogicalName(fs[k].Name)
         IN  IF fileName \in DOMAIN seen
             THEN ErrDuplicate(fileName, seen[fileName], fs[k].Name)
             ELSE ValidateFrom(fs, k + 1, (fileName :> fs[k].Name) @@ seen)

\* variant: the validation is skipped
validateUniqueFileNamesSkipped(fs) == Nil

\* variant: the first entry is never entered into seen
validateUniqueFileNamesFromSecond(fs) == ValidateFrom(fs, 2, <<>>)

validateUniqueFileNames(fs) == ValidateFrom(fs, 1, <<>>)

----------------------------------------------------------------------------
(* Inputs: repositories, forge answers, candidate orders *)

MainYml == <<"m", "a", "i", "n", ".", "y", "m", "l">>

SubMainYaml == <<"s", "u", "b", "/", "m", "a", "i", "n", ".", "y", "a", "m", "l">>

BuildYml == <<"c", "i", "/", "b", "u", "i", "l", "d", ".", "y", "m", "l">>

DeployYaml == <<"c", "i", "/", "d", "e", "p", "l", "o", "y", ".", "y", "a", "m", "l">>

TemplateMainYml == <<"T", "e", "m", "p", "l", "a", "t", "e", "s", "/", "m", "a", "i", "n", ".", "y", "m", "l">>

ReadmeMd == <<"R", "E", "A", "D", "M", "E", ".", "m", "d">>

CiDir == <<"c", "i", "/">>

CiYml == <<".", "c", "i", ".", "y", "m", "l">>

CustomYml == <<"c", "u", "s", "t", "o", "m", "/", "p", ".", "y", "m", "l">>

\* file contents: Go byte slices
NoData == <<>>

DataA == <<1>>

DataB == <<2>>

\* answers of forge.File: content or an error, or both
FileAnswers ==
    { [data |-> NoData, err |-> Nil],
      [data |-> DataA, err |-> Nil],
      [data |-> NoData, err |-> ErrNotImplemented],
      [data |-> NoData, err |-> ErrConfigNotFound(<<>>)],
      [data |-> NoData, err |-> ErrForge],
      [data |-> DataA, err |-> ErrForge] }

\* what Dir may list: nothing, nothing eligible, two distinct files, two files
\* with one logical name, and a clash that the template filter can remove
Listings ==
    { <<>>,
      <<FileMeta(ReadmeMd, DataA)>>,
      <<FileMeta(BuildYml, DataA), FileMeta(ReadmeMd, DataB), FileMeta(DeployYaml, DataB)>>,
      <<FileMeta(MainYml, DataA), FileMeta(SubMainYaml, DataB)>>,
      <<FileMeta(TemplateMainYml, DataA), FileMeta(MainYml, DataB)>> }

\* answers of forge.Dir: a listing or an error, or both
DirAnswers ==
    [files : Listings, err : {Nil}]
    \cup [files : {<<>>}, err : {ErrNotImplemented, ErrConfigNotFound(<<>>), ErrForge}]
    \cup { [files |-> <<FileMeta(MainYml, DataA)>>, err |-> ErrForge] }

\* repo.Config as stored: unset, blank, a file override with surrounding
\* whitespace, a directory override
RepoConfigs ==
    { <<>>,
      <<" ", "\t">>,
      <<" ">> \o CustomYml \o <<" ", "\n">>,
      CiDir }

\* constant.DefaultConfigOrder: the fixed ordered list of default candidate
\* locations, a root file, a directory and another root file
DefaultConfigOrder == <<MainYml, CiDir, CiYml>>

PriorValid == <<FileMeta(BuildYml, DataA), FileMeta(DeployYaml, DataB)>>

PriorClash == <<FileMeta(MainYml, DataA), FileMeta(SubMainYaml, DataA)>>

\* (restart, oldConfigData) pairs a caller may pass
FetchArgs ==
    { <<FALSE, PriorValid>>, <<TRUE, <<>> >>, <<TRUE, PriorValid>>,
      <<TRUE, PriorClash>> }

----------------------------------------------------------------------------
(* State *)

VARIABLES
    retryCount,          \* forgeFetcher.retryCount
    repoConfig,          \* repo.Config, untrimmed
    ignoreTemplateFiles, \* repo.IgnoreTemplateFiles
    restart,             \* Fetch argument
    oldConfigData,       \* Fetch argument
    pc,                  \* "start", "loop", "cascade", "done"; of a helper
                         \* called on its own "helper", "filtered", "validated"
    i,                   \* loop counter of Fetch
    files,               \* named result of Fetch
    err,                 \* named result of Fetch
    configs,             \* candidate list of the running cascade
    idx,                 \* position of the cascade's range loop (1-based)
    dirListed,           \* the directory branch fell through to the file lookup
    forgeErr,            \* errors recorded by the running cascade
    inFlight,            \* forge calls that have not returned yet
    ctxErr,              \* the attempt's context: "none", "live" or its Err()
    parentDone,          \* the context passed to Fetch has been cancelled
    cancelledIn,         \* history: the attempt that was running when the
                         \* context passed to Fetch was cancelled, 0 if none
    bornCancelled,       \* history: the latest attempt's context was derived
                         \* from an already cancelled context
    calls,               \* history: forge calls of the latest attempt, in order
    attempts,            \* history: number of calls of fetch
    cascadeRet,          \* history: what the latest attempt's cascade returned,
                         \* and when; nothing while that cascade runs
    stableForge,         \* the repository on the forge does not change
    answered,            \* what a stable forge has answered, by call
    run,                 \* which call of Fetch this is, of the same fetcher
    firstOutcome,        \* what the call before this one returned
    hListing,            \* argument of a helper called on its own
    hFiltered,           \* result of filterPipelineFiles called on its own
    hVerdict,            \* result of validateUniqueFileNames called on its own
    gSecrets,            \* argument of GroupSecrets
    gPatterns,           \* argument of GroupSecrets
    gGroups              \* result of GroupSecrets

vars ==
    << retryCount, repoConfig, ignoreTemplateFiles, restart,
       oldConfigData, pc, i, files, err, configs, idx, dirListed, forgeErr,
       inFlight, ctxErr, parentDone, cancelledIn, bornCancelled, calls, attempts, cascadeRet, stableForge,
       answered, run, firstOutcome, hListing, hFiltered, hVerdict,
       gSecrets, gPatterns, gGroups >>

inputs ==
    << retryCount, repoConfig, ignoreTemplateFiles, restart,
       oldConfigData, stableForge >>

\* what only the callers of Fetch and of the helpers change
callerVars ==
    << run, firstOutcome, hListing, hFiltered, hVerdict,
       gSecrets, gPatterns, gGroups >>

\* what only a caller of GroupSecrets changes
groupVars == << gSecrets, gPatterns, gGroups >>

\* GroupSecrets has not been called
NoGroups == [Groups |-> <<>>, Patterns |-> <<>>]

cascadeVars == << configs, idx, dirListed, forgeErr, inFlight >>

NoCascade == [attempt |-> 0, files |-> <<>>, err |-> Nil, ctx |-> "none"]

NoOutcome == [files |-> <<>>, err |-> Nil, cascade |-> NoCascade]

\* one call of Fetch is about to start, nothing else has happened
FetchEntry ==
    /\ pc = "start"
    /\ i = 0
    /\ files = <<>>
    /\ err = Nil
    /\ configs = <<>>
    /\ idx = 1
    /\ dirListed = FALSE
    /\ forgeErr = <<>>
    /\ inFlight = <<>>
    /\ ctxErr = "none"
    /\ parentDone = FALSE
    /\ cancelledIn = 0
    /\ bornCancelled = FALSE
    /\ calls = <<>>
    /\ attempts = 0
    /\ cascadeRet = NoCascade
    /\ answered = <<>>
    /\ run = 1
    /\ firstOutcome = NoOutcome
    /\ hListing = <<>>
    /\ hFiltered = <<>>
    /\ hVerdict = Nil
    /\ gSecrets = <<>>
    /\ gPatterns = <<>>
    /\ gGroups = NoGroups

Init ==
    /\ retryCount \in 0..MaxRetry
    /\ repoConfig \in RepoConfigs
    /\ ignoreTemplateFiles \in BOOLEAN
    /\ \E args \in FetchArgs :
           /\ restart = args[1]
           /\ oldConfigData = args[2]
    /\ stableForge = FALSE
    /\ FetchEntry

----------------------------------------------------------------------------
(* The steps of getFirstAvailableConfig, as functions of the forge's answer *)

\* what the cascade does next: go on with the next candidate, go on with the
\* file lookup of the same candidate, or return (files, err)
Continue(fErr) == [next |-> "continue", forgeErr |-> fErr, files |-> <<>>, err |-> Nil]

FallThrough(fErr) == [next |-> "file", forgeErr |-> fErr, files |-> <<>>, err |-> Nil]

Return(fs, e) == [next |-> "return", forgeErr |-> <<>>, files |-> fs, err |-> e]

\* variant: a name clash is recorded like a forge error and the cascade goes on
DirStepClashRecorded(listing, e, fErr, ignoreTemplates) ==
    IF e # Nil
    THEN IF ~ErrorsIs(e, "ErrNotImplemented") /\ ~ErrorsIs(e, "ErrConfigNotFound")
         THEN Continue(Append(fErr, e))
         ELSE Continue(fErr)
    ELSE LET filtered == filterPipelineFiles(listing, ignoreTemplates)
         IN  IF Len(filtered) # 0
             THEN LET verr == validateUniqueFileNames(filtered)
                  IN  IF verr # Nil THEN Continue(Append(fErr, verr))
                      ELSE Return(filtered, Nil)
             ELSE FallThrough(fErr)

\* variant: "not implemented" from forge.Dir is recorded like a forge error
DirStepRecordsNotImplemented(listing, e, fErr, ignoreTemplates) ==
    IF e # Nil
    THEN IF ~ErrorsIs(e, "ErrConfigNotFound")
         THEN Continue(Append(fErr, e))
         ELSE Continue(fErr)
    ELSE LET filtered == filterPipelineFiles(listing, ignoreTemplates)
         IN  IF Len(filtered) # 0
             THEN LET verr == validateUniqueFileNames(filtered)
                  IN  IF verr # Nil THEN Return(<<>>, verr)
                      ELSE Return(filtered, Nil)
             ELSE FallThrough(fErr)

\* variant: after "not implemented" or "not found" from forge.Dir the file
\* lookup is tried for the same candidate
DirStepSoftMissFallsThrough(listing, e, fErr, ignoreTemplates) ==
    IF e # Nil
    THEN IF ~ErrorsIs(e, "ErrNotImplemented") /\ ~ErrorsIs(e, "ErrConfigNotFound")
         THEN Continue(Append(fErr, e))
         ELSE FallThrough(fErr)
    ELSE LET filtered == filterPipelineFiles(listing, ignoreTemplates)
         IN  IF Len(filtered) # 0
             THEN LET verr == validateUniqueFileNames(filtered)
                  IN  IF verr # Nil THEN Return(<<>>, verr)
                      ELSE Return(filtered, Nil)
             ELSE FallThrough(fErr)

\* the directory branch, given the answer (listing, e) of forge.Dir
DirStep(listing, e, fErr, ignoreTemplates) ==
    IF e # Nil
    THEN IF ~ErrorsIs(e, "ErrNotImplemented") /\ ~ErrorsIs(e, "ErrConfigNotFound")
         THEN Continue(Append(fErr, e))
         ELSE Continue(fErr)
    ELSE LET filtered == filterPipelineFiles(listing, ignoreTemplates)
         IN  IF Len(filtered) # 0
             THEN LET verr == validateUniqueFileNames(filtered)
                  IN  IF verr # Nil THEN Return(<<>>, verr)
                      ELSE Return(filtered, Nil)
             ELSE FallThrough(fErr)

\* checkPipelineFile, given the answer (data, e) of forge.File
checkPipelineFile(config, data, e) ==
    IF e = Nil /\ Len(data) # 0
    THEN [files |-> <<FileMeta(config, data)>>, err |-> Nil]
    ELSE [files |-> <<>>, err |-> e]

\* variant: a found file does not end the range loop
FileStepNoReturn(config, data, e, fErr) ==
    LET r == checkPipelineFile(config, data, e)
    IN  IF r.err = Nil THEN Continue(fErr)
        ELSE IF ~ErrorsIs(r.err, "ErrConfigNotFound")
        THEN Continue(Append(fErr, r.err))
        ELSE Continue(fErr)

\* variant: a found file is given up for the errors recorded before it
FileStepErrorsBlock(config, data, e, fErr) ==
    LET r == checkPipelineFile(config, data, e)
    IN  IF r.err = Nil
        THEN IF Len(fErr) # 0 THEN Return(<<>>, Join(fErr))
             ELSE Return(r.files, Nil)
        ELSE IF ~ErrorsIs(r.err, "ErrConfigNotFound")
        THEN Continue(Append(fErr, r.err))
        ELSE Continue(fErr)

\* the file branch, given the answer (data, e) of forge.File
FileStep(config, data, e, fErr) ==
    LET r == checkPipelineFile(config, data, e)
    IN  IF r.err = Nil THEN Return(r.files, Nil)
        ELSE IF ~ErrorsIs(r.err, "ErrConfigNotFound")
        THEN Continue(Append(fErr, r.err))
        ELSE Continue(fErr)

\* variant: only the last recorded error is reported
ExhaustedLastErrorOnly(cfgs, fErr) ==
    IF Len(fErr) # 0 THEN Return(<<>>, Join(<<fErr[Len(fErr)]>>))
    ELSE Return(<<>>, ErrConfigNotFound(cfgs))

\* variant: "not found" names only the last candidate
ExhaustedNamesLast(cfgs, fErr) ==
    IF Len(fErr) # 0 THEN Return(<<>>, Join(fErr))
    ELSE Return(<<>>, ErrConfigNotFound(IF Len(cfgs) = 0 THEN cfgs
                                        ELSE <<cfgs[Len(cfgs)]>>))

\* after the range loop
Exhausted(cfgs, fErr) ==
    IF Len(fErr) # 0 THEN Return(<<>>, Join(fErr))
    ELSE Return(<<>>, ErrConfigNotFound(cfgs))

----------------------------------------------------------------------------
(* forgeFetcherContext.fetch around the cascade *)

\* variant: the default branch does not look at the context
FetchResultNoSelect(config, fileMetas, cerr, ctx) ==
    IF Len(config) > 0
    THEN IF cerr = Nil THEN [files |-> fileMetas, err |-> Nil]
         ELSE [files |-> <<>>, err |-> ErrUserDefined(config, cerr)]
    ELSE IF cerr = Nil THEN [files |-> fileMetas, err |-> Nil]
         ELSE [files |-> <<>>, err |-> ErrFallback(cerr)]

\* variant: both branches look at the context before reporting the error
FetchResultSelectFirst(config, fileMetas, cerr, ctx) ==
    IF cerr = Nil THEN [files |-> fileMetas, err |-> Nil]
    ELSE IF ctx # "live" THEN [files |-> <<>>, err |-> CtxError(ctx)]
    ELSE IF Len(config) > 0
    THEN [files |-> <<>>, err |-> ErrUserDefined(config, cerr)]
    ELSE [files |-> <<>>, err |-> ErrFallback(cerr)]

\* variant: the default branch looks at the context before it looks at the
\* cascade's result
FetchResultCtxBeforeSuccess(config, fileMetas, cerr, ctx) ==
    IF Len(config) > 0
    THEN IF cerr = Nil THEN [files |-> fileMetas, err |-> Nil]
         ELSE [files |-> <<>>, err |-> ErrUserDefined(config, cerr)]
    ELSE IF ctx # "live" THEN [files |-> <<>>, err |-> CtxError(ctx)]
         ELSE IF cerr = Nil THEN [files |-> fileMetas, err |-> Nil]
         ELSE [files |-> <<>>, err |-> ErrFallback(cerr)]

\* what fetch returns for the cascade's (fileMetas, cerr), the context being
\* in state ctx at that moment
FetchResult(config, fileMetas, cerr, ctx) ==
    IF Len(config) > 0
    THEN IF cerr = Nil THEN [files |-> fileMetas, err |-> Nil]
         ELSE [files |-> <<>>, err |-> ErrUserDefined(config, cerr)]
    ELSE IF cerr = Nil THEN [files |-> fileMetas, err |-> Nil]
         ELSE IF ctx # "live" THEN [files |-> <<>>, err |-> CtxError(ctx)]
         ELSE [files |-> <<>>, err |-> ErrFallback(cerr)]

----------------------------------------------------------------------------
(* Actions *)

\* Fetch, lines 112-114: the restart short-circuit
FetchRestart ==
    /\ pc = "start"
    /\ restart /\ Len(oldConfigData) > 0
    /\ files' = oldConfigData
    /\ err' = Nil
    /\ pc' = "done"
    /\ UNCHANGED << inputs, callerVars, bornCancelled, answered, i, cascadeVars, ctxErr, parentDone, cancelledIn, calls,
                    attempts, cascadeRet >>

\* variant: the retry loop is entered whatever restart says
FetchBeginAlways ==
    /\ pc = "start"
    /\ i' = 0
    /\ pc' = "loop"
    /\ UNCHANGED << inputs, callerVars, bornCancelled, answered, files, err, cascadeVars, ctxErr, parentDone, cancelledIn,
                    calls, attempts, cascadeRet >>

\* Fetch, lines 116-125: enter the retry loop
FetchBegin ==
    /\ pc = "start"
    /\ ~(restart /\ Len(oldConfigData) > 0)
    /\ i' = 0
    /\ pc' = "loop"
    /\ UNCHANGED << inputs, callerVars, bornCancelled, answered, files, err, cascadeVars, ctxErr, parentDone, cancelledIn,
                    calls, attempts, cascadeRet >>

\* variant: the defaults are tried after the override
AttemptStartOverrideThenDefaults ==
    /\ pc = "loop"
    /\ i < retryCount
    /\ LET config == TrimSpace(repoConfig)
       IN  configs' = IF Len(config) > 0 THEN <<config>> \o DefaultConfigOrder
                      ELSE DefaultConfigOrder
    /\ ctxErr' = IF parentDone THEN "context.Canceled" ELSE "live"
    /\ bornCancelled' = parentDone
    /\ idx' = 1
    /\ dirListed' = FALSE
    /\ forgeErr' = <<>>
    /\ inFlight' = <<>>
    /\ attempts' = attempts + 1
    /\ calls' = <<>>
    /\ pc' = "cascade"
    /\ cascadeRet' = NoCascade
    /\ UNCHANGED << inputs, callerVars, answered, i, files, err, parentDone, cancelledIn >>

\* variant: the timeout is counted from the first attempt, so that once it
\* has expired every later attempt starts with an expired context
AttemptStartSharedDeadline ==
    /\ pc = "loop"
    /\ i < retryCount
    /\ LET config == TrimSpace(repoConfig)
       IN  configs' = IF Len(config) > 0 THEN <<config>> ELSE DefaultConfigOrder
    /\ ctxErr' = IF parentDone THEN "context.Canceled"
                 ELSE IF cascadeRet.ctx = "context.DeadlineExceeded"
                 THEN "context.DeadlineExceeded"
                 ELSE "live"
    /\ bornCancelled' = parentDone
    /\ idx' = 1
    /\ dirListed' = FALSE
    /\ forgeErr' = <<>>
    /\ inFlight' = <<>>
    /\ attempts' = attempts + 1
    /\ calls' = <<>>
    /\ pc' = "cascade"
    /\ cascadeRet' = NoCascade
    /\ UNCHANGED << inputs, callerVars, answered, i, files, err, parentDone, cancelledIn >>

\* variant: repo.Config is not trimmed
AttemptStartNoTrim ==
    /\ pc = "loop"
    /\ i < retryCount
    /\ configs' = IF Len(repoConfig) > 0 THEN <<repoConfig>> ELSE DefaultConfigOrder
    /\ ctxErr' = IF parentDone THEN "context.Canceled" ELSE "live"
    /\ bornCancelled' = parentDone
    /\ idx' = 1
    /\ dirListed' = FALSE
    /\ forgeErr' = <<>>
    /\ inFlight' = <<>>
    /\ attempts' = attempts + 1
    /\ calls' = <<>>
    /\ pc' = "cascade"
    /\ cascadeRet' = NoCascade
    /\ UNCHANGED << inputs, callerVars, answered, i, files, err, parentDone, cancelledIn >>

\* variant: the loop body runs once before the loop condition is looked at
AttemptStartAtLeastOnce ==
    /\ pc = "loop"
    /\ i < retryCount \/ attempts = 0
    /\ LET config == TrimSpace(repoConfig)
       IN  configs' = IF Len(config) > 0 THEN <<config>> ELSE DefaultConfigOrder
    /\ ctxErr' = IF parentDone THEN "context.Canceled" ELSE "live"
    /\ bornCancelled' = parentDone
    /\ idx' = 1
    /\ dirListed' = FALSE
    /\ forgeErr' = <<>>
    /\ inFlight' = <<>>
    /\ attempts' = attempts + 1
    /\ calls' = <<>>
    /\ pc' = "cascade"
    /\ cascadeRet' = NoCascade
    /\ UNCHANGED << inputs, callerVars, answered, i, files, err, parentDone, cancelledIn >>

\* one iteration starts: fetch derives the attempt's context and picks the
\* candidate list
AttemptStart ==
    /\ pc = "loop"
    /\ i < retryCount
    /\ LET config == TrimSpace(repoConfig)
       IN  configs' = IF Len(config) > 0 THEN <<config>> ELSE DefaultConfigOrder
    /\ ctxErr' = IF parentDone THEN "context.Canceled" ELSE "live"
    /\ bornCancelled' = parentDone
    /\ idx' = 1
    /\ dirListed' = FALSE
    /\ forgeErr' = <<>>
    /\ inFlight' = <<>>
    /\ attempts' = attempts + 1
    /\ calls' = <<>>
    /\ pc' = "cascade"
    /\ cascadeRet' = NoCascade
    /\ UNCHANGED << inputs, callerVars, answered, i, files, err, parentDone, cancelledIn >>

\* variant: the loop also ends when the enclosing context is cancelled
FetchReturnOnCancel ==
    /\ pc = "loop"
    /\ i >= retryCount \/ parentDone
    /\ pc' = "done"
    /\ UNCHANGED << inputs, callerVars, bornCancelled, answered, i, files, err,
                    cascadeVars, ctxErr, parentDone, cancelledIn, calls, attempts,
                    cascadeRet >>

\* the loop condition fails: return files, err
FetchReturn ==
    /\ pc = "loop"
    /\ i >= retryCount
    /\ pc' = "done"
    /\ UNCHANGED << inputs, callerVars, bornCancelled, answered, i, files, err, cascadeVars, ctxErr, parentDone, cancelledIn,
                    calls, attempts, cascadeRet >>

\* variant: the loop has no break
LoopBodyNoBreak(r) ==
    /\ files' = r.files
    /\ err' = r.err
    /\ i' = i + 1
    /\ pc' = "loop"

\* variant: the loop gives up after the first failed attempt
LoopBodyReturnOnFailure(r) ==
    /\ files' = r.files
    /\ err' = r.err
    /\ i' = IF r.err # Nil THEN i + 1 ELSE i
    /\ pc' = "done"

\* Fetch, lines 126-131: the loop body after fetch returned r; a failure
\* goes on with the next iteration, a success breaks out and returns
LoopBody(r) ==
    /\ files' = r.files
    /\ err' = r.err
    /\ i' = IF r.err # Nil THEN i + 1 ELSE i
    /\ pc' = IF r.err # Nil THEN "loop" ELSE "done"

\* the cascade acts on a step's outcome; a return runs the rest of fetch and
\* the body of Fetch's loop
Apply(out) ==
    IF out.next = "return"
    THEN LET r == FetchResult(TrimSpace(repoConfig), out.files, out.err, ctxErr)
         IN  /\ cascadeRet' = [attempt |-> attempts, files |-> out.files,
                               err |-> out.err, ctx |-> ctxErr]
             /\ LoopBody(r)
             /\ ctxErr' = "none"
             /\ configs' = <<>>
             /\ idx' = 1
             /\ dirListed' = FALSE
             /\ forgeErr' = <<>>
    ELSE /\ forgeErr' = out.forgeErr
         /\ dirListed' = (out.next = "file")
         /\ idx' = IF out.next = "file" THEN idx ELSE idx + 1
         /\ UNCHANGED << configs, cascadeRet, files, err, i, pc, ctxErr >>

\* a forge call with its answer
Call(op, path, listing, data, e) ==
    [candidate |-> idx, op |-> op, path |-> path, files |-> listing,
     data |-> data, err |-> e]

\* the answers the forge may give to a call: any of them, but the one it
\* gave before when the repository on the forge does not change
AnswersTo(op, path, all) ==
    IF stableForge /\ <<op, path>> \in DOMAIN answered
    THEN {answered[<<op, path>>]}
    ELSE all

Remember(op, path, answer) ==
    IF stableForge THEN (<<op, path>> :> answer) @@ answered ELSE answered

\* a forge call that has been made and has not returned
Pending(op, path) == [op |-> op, path |-> path]

\* variant: the listing is asked for without waiting for an earlier call
CallDirNoWait ==
    /\ pc = "cascade"
    /\ idx <= Len(configs)
    /\ HasSuffix(configs[idx], Slash)
    /\ ~dirListed
    /\ Len(inFlight) <= 1
    /\ inFlight' = Append(inFlight, Pending("Dir", TrimSuffix(configs[idx], Slash)))
    /\ UNCHANGED << inputs, callerVars, bornCancelled, answered, pc, i, files, err, configs,
                    idx, dirListed, forgeErr, ctxErr, parentDone, cancelledIn, calls,
                    attempts, cascadeRet >>

\* a directory candidate: the range loop calls forge.Dir
CallDir ==
    /\ pc = "cascade"
    /\ idx <= Len(configs)
    /\ HasSuffix(configs[idx], Slash)
    /\ ~dirListed
    /\ Len(inFlight) = 0
    /\ inFlight' = Append(inFlight, Pending("Dir", TrimSuffix(configs[idx], Slash)))
    /\ UNCHANGED << inputs, callerVars, bornCancelled, answered, pc, i, files, err, configs,
                    idx, dirListed, forgeErr, ctxErr, parentDone, cancelledIn, calls,
                    attempts, cascadeRet >>

\* forge.Dir returns, and what follows from its answer
ProbeDir ==
    /\ pc = "cascade"
    /\ Len(inFlight) > 0
    /\ Head(inFlight).op = "Dir"
    /\ LET basePath == Head(inFlight).path
       IN  \E answer \in AnswersTo("Dir", basePath, DirAnswers) :
               /\ calls' = Append(calls, Call("Dir", basePath, answer.files,
                                              NoData, answer.err))
               /\ answered' = Remember("Dir", basePath, answer)
               /\ Apply(DirStep(answer.files, answer.err, forgeErr,
                                ignoreTemplateFiles))
    /\ inFlight' = Tail(inFlight)
    /\ UNCHANGED << inputs, callerVars, bornCancelled, parentDone, cancelledIn, attempts >>

\* the file lookup: checkPipelineFile calls forge.File
CallFile ==
    /\ pc = "cascade"
    /\ idx <= Len(configs)
    /\ ~HasSuffix(configs[idx], Slash) \/ dirListed
    /\ Len(inFlight) = 0
    /\ inFlight' = Append(inFlight, Pending("File", configs[idx]))
    /\ UNCHANGED << inputs, callerVars, bornCancelled, answered, pc, i, files, err, configs,
                    idx, dirListed, forgeErr, ctxErr, parentDone, cancelledIn, calls,
                    attempts, cascadeRet >>

\* forge.File returns, and what follows from its answer
ProbeFile ==
    /\ pc = "cascade"
    /\ Len(inFlight) > 0
    /\ Head(inFlight).op = "File"
    /\ LET config == Head(inFlight).path
       IN  \E answer \in AnswersTo("File", config, FileAnswers) :
               /\ calls' = Append(calls, Call("File", config, <<>>,
                                              answer.data, answer.err))
               /\ answered' = Remember("File", config, answer)
               /\ Apply(FileStep(config, answer.data, answer.err, forgeErr))
    /\ inFlight' = Tail(inFlight)
    /\ UNCHANGED << inputs, callerVars, bornCancelled, parentDone, cancelledIn, attempts >>

\* no candidate is left
CascadeExhausted ==
    /\ pc = "cascade"
    /\ idx > Len(configs)
    /\ Apply(Exhausted(configs, forgeErr))
    /\ UNCHANGED << inputs, callerVars, bornCancelled, answered, inFlight, parentDone, cancelledIn, calls,
                    attempts >>

\* the caller cancels the context it passed to Fetch: before the first
\* attempt, while an attempt is running, or between two attempts
CancelParent ==
    /\ pc # "done"
    /\ ~parentDone
    /\ parentDone' = TRUE
    /\ cancelledIn' = IF pc = "cascade" THEN attempts ELSE 0
    /\ ctxErr' = IF ctxErr = "live" THEN "context.Canceled" ELSE ctxErr
    /\ UNCHANGED << inputs, callerVars, bornCancelled, answered, pc, i, files, err, cascadeVars, calls, attempts,
                    cascadeRet >>

\* the attempt's timeout elapses
TimeoutExpire ==
    /\ pc = "cascade"
    /\ ctxErr = "live"
    /\ ctxErr' = "context.DeadlineExceeded"
    /\ UNCHANGED << inputs, callerVars, bornCancelled, answered, pc, i, files, err, cascadeVars, parentDone, cancelledIn, calls,
                    attempts, cascadeRet >>

Next ==
    \/ FetchRestart
    \/ FetchBegin
    \/ AttemptStart
    \/ FetchReturn
    \/ CallDir
    \/ ProbeDir
    \/ CallFile
    \/ ProbeFile
    \/ CascadeExhausted
    \/ CancelParent
    \/ TimeoutExpire

Spec == Init /\ [][Next]_vars

TypeOK ==
    /\ pc \in {"start", "loop", "cascade", "done"}
    /\ i \in 0..retryCount
    /\ attempts \in 0..retryCount
    /\ ctxErr \in {"none", "live", "context.Canceled", "context.DeadlineExceeded"}

----------------------------------------------------------------------------
(* Fetch called twice for a repository that does not change on the forge *)

InitTwice ==
    /\ retryCount \in 0..MaxRetry
    /\ repoConfig \in RepoConfigs
    /\ ignoreTemplateFiles \in BOOLEAN
    /\ \E args \in FetchArgs :
           /\ restart = args[1]
           /\ oldConfigData = args[2]
    /\ stableForge = TRUE
    /\ FetchEntry

\* the caller keeps what Fetch returned and calls Fetch again, with the same
\* arguments and a context of its own
FetchAgain ==
    /\ pc = "done"
    /\ run = 1
    /\ run' = 2
    /\ firstOutcome' = [files |-> files, err |-> err, cascade |-> cascadeRet]
    /\ pc' = "start"
    /\ i' = 0
    /\ files' = <<>>
    /\ err' = Nil
    /\ configs' = <<>>
    /\ idx' = 1
    /\ dirListed' = FALSE
    /\ forgeErr' = <<>>
    /\ inFlight' = <<>>
    /\ ctxErr' = "none"
    /\ parentDone' = FALSE
    /\ cancelledIn' = 0
    /\ bornCancelled' = FALSE
    /\ calls' = <<>>
    /\ attempts' = 0
    /\ cascadeRet' = NoCascade
    /\ UNCHANGED << inputs, answered, hListing, hFiltered, hVerdict, groupVars >>

NextTwice == Next \/ FetchAgain

SpecTwice == InitTwice /\ [][NextTwice]_vars

----------------------------------------------------------------------------
(* The two helpers called on their own, on any short listing *)

MaxListing == 3

AYml == <<"a", ".", "y", "m", "l">>

DirAYaml == <<"d", "/", "a", ".", "y", "a", "m", "l">>

AYamlYml == <<"a", ".", "y", "a", "m", "l", ".", "y", "m", "l">>

BYaml == <<"b", ".", "y", "a", "m", "l">>

TemplateYml == <<"t", "e", "m", "p", "l", "a", "t", "e", ".", "y", "m", "l">>

MixedTemplateYaml ==
    <<"d", "/", "T", "e", "m", "P", "L", "A", "T", "E", "-", "b", ".", "y", "a", "m", "l">>

ATxt == <<"a", ".", "t", "x", "t">>

BareYml == <<"y", "m", "l">>

\* entries a listing may hold: names with and without an accepted extension,
\* in and out of a directory, with "template" in either case, and one name
\* with two contents
HelperFiles ==
    { FileMeta(n, DataA) :
        n \in {AYml, DirAYaml, AYamlYml, BYaml, TemplateYml, MixedTemplateYaml,
               ATxt, BareYml} }
    \cup { FileMeta(AYml, DataB) }

HelperListings == UNION { [1..n -> HelperFiles] : n \in 0..MaxListing }

InitHelpers ==
    /\ retryCount = 0
    /\ repoConfig = <<>>
    /\ ignoreTemplateFiles \in BOOLEAN
    /\ restart = FALSE
    /\ oldConfigData = <<>>
    /\ stableForge = FALSE
    /\ pc = "helper"
    /\ i = 0
    /\ files = <<>>
    /\ err = Nil
    /\ configs = <<>>
    /\ idx = 1
    /\ dirListed = FALSE
    /\ forgeErr = <<>>
    /\ inFlight = <<>>
    /\ ctxErr = "none"
    /\ parentDone = FALSE
    /\ cancelledIn = 0
    /\ bornCancelled = FALSE
    /\ calls = <<>>
    /\ attempts = 0
    /\ cascadeRet = NoCascade
    /\ answered = <<>>
    /\ run = 1
    /\ firstOutcome = NoOutcome
    /\ hListing \in HelperListings
    /\ hFiltered = <<>>
    /\ hVerdict = Nil
    /\ gSecrets = <<>>
    /\ gPatterns = <<>>
    /\ gGroups = NoGroups

\* f.filterPipelineFiles(files)
CallFilter ==
    /\ pc = "helper"
    /\ hFiltered' = filterPipelineFiles(hListing, ignoreTemplateFiles)
    /\ pc' = "filtered"
    /\ UNCHANGED << inputs, i, files, err, cascadeVars, ctxErr, parentDone, cancelledIn,
                    bornCancelled,
                    calls, attempts, cascadeRet, answered, run, firstOutcome,
                    hListing, hVerdict, groupVars >>

\* validateUniqueFileNames(files)
CallValidate ==
    /\ pc = "helper"
    /\ hVerdict' = validateUniqueFileNames(hListing)
    /\ pc' = "validated"
    /\ UNCHANGED << inputs, i, files, err, cascadeVars, ctxErr, parentDone, cancelledIn,
                    bornCancelled,
                    calls, attempts, cascadeRet, answered, run, firstOutcome,
                    hListing, hFiltered, groupVars >>

NextHelpers == CallFilter \/ CallValidate

SpecHelpers == InitHelpers /\ [][NextHelpers]_vars

----------------------------------------------------------------------------
(* Secret grouping (server/services/secret/grouping.go)                    *)
(*                                                                         *)
(* A compiled regular expression is a record of what it matches: the       *)
(* quoted base is matched literally, the capture group is a set of shapes, *)
(* each a run of characters of [A-Z0-9] followed by literal text.          *)

\* largest number of patterns passed to GroupSecrets
MaxPatterns == 2

\* largest number of secrets passed to GroupSecrets
MaxSecrets == 2

\* unicode.ToUpper on the ASCII small letters
LowerToUpper ==
    [c \in {UpperToLower[u] : u \in DOMAIN UpperToLower} |->
        CHOOSE u \in DOMAIN UpperToLower : UpperToLower[u] = c]

\* unicode.ToUpper on the other letters: the dotless i and the long s have
\* ASCII upper-case forms
OtherToUpper ==
    (Rune(228) :> Rune(196)) @@ (Rune(255) :> Rune(376)) @@
    (Rune(305) :> "I") @@ (Rune(383) :> "S")

\* unicode.ToUpper
ToUpperRune ==
    [c \in Alphabet |->
        IF c \in DOMAIN LowerToUpper THEN LowerToUpper[c]
        ELSE IF c \in DOMAIN OtherToUpper THEN OtherToUpper[c]
        ELSE c]

ToUpper(s) == [k \in 1..Len(s) |-> ToUpperRune[s[k]]]

TrimRight(s, cutset) ==
    LET keep == {k \in 1..Len(s) : s[k] \notin cutset}
    IN  IF keep = {} THEN <<>> ELSE SubSeq(s, 1, SetMax(keep))

HasPrefix(s, prefix) ==
    /\ Len(s) >= Len(prefix)
    /\ SubSeq(s, 1, Len(prefix)) = prefix

\* strings.Count(s, c) for a one-character c
Count(s, c) == Cardinality({k \in 1..Len(s) : s[k] = c})

\* strings.SplitN(s, c, 2) for a one-character c
SplitN2(s, c) ==
    LET at == {k \in 1..Len(s) : s[k] = c}
    IN  IF at = {} THEN << s >>
        ELSE << SubSeq(s, 1, SetMin(at) - 1), SubSeq(s, SetMin(at) + 1, Len(s)) >>

NormalizePrefix(prefix) == TrimRight(ToUpper(prefix), {"_", "-"})

\* the nil *regexp.Regexp
NilRegexp == [kind |-> "nil"]

\* the nil *PrefixPattern
NilPrefixPattern == [nil |-> TRUE]

\* regexp.MustCompile panicked
Panic == [panic |-> TRUE]

\* the character class [A-Z0-9]
InClass(c) ==
    \/ c \in DOMAIN UpperToLower
    \/ c \in {"0", "1", "2", "3", "4", "5", "6", "7", "8", "9"}

\* number of consecutive characters of [A-Z0-9] in s from position from on
ClassRun(s, from) ==
    LET stops == {k \in from..(Len(s) + 1) : k = Len(s) + 1 \/ ~InClass(s[k])}
    IN  SetMin(stops) - from

\* one way a capture group can match: count characters of the class (or
\* more, when more is set), then the literal text
Shape(count, more, text) == [count |-> count, more |-> more, text |-> text]

\* regexp.MustCompile("^" + QuoteMeta(base) + "_([A-Z0-9]{" + c + "})_"),
\* c = string(rune('0'+questionCount)).  Up to 9 c is the digit and "{c}" a
\* repetition count.  Beyond 9 c is no digit, "{" does not open a
\* repetition and stands for itself, and what follows is parsed on its own:
\* "?" (15) makes the "{" optional, "[" (43) opens a class that is never
\* closed, which is a syntax error, "\" (44) quotes the "}", "^" (46)
\* asserts the beginning of the text and cannot hold there, "|" (76)
\* separates two alternatives; any other character stands for itself.
CompileFixedLength(base, questionCount) ==
    LET c == Rune(48 + questionCount)
        shapes ==
            IF questionCount \in 1..9 THEN {Shape(questionCount, FALSE, << >>)}
            ELSE IF c = "?" THEN {Shape(1, FALSE, << "{", "}" >>),
                                  Shape(1, FALSE, << "}" >>)}
            ELSE IF c = "\\" THEN {Shape(1, FALSE, << "{", "}" >>)}
            ELSE IF c = "^" THEN {}
            ELSE IF c = "|" THEN {Shape(1, FALSE, << "{" >>),
                                  Shape(0, FALSE, << "}" >>)}
            ELSE {Shape(1, FALSE, << "{", c, "}" >>)}
    IN  IF questionCount >= 10 /\ c = "["
        THEN Panic
        ELSE [kind |-> "group", base |-> base, shapes |-> shapes]

\* regexp.MustCompile("^" + QuoteMeta(base) + "_([A-Z0-9]+)_")
CompileWildcard(base) ==
    [kind |-> "group", base |-> base, shapes |-> {Shape(1, TRUE, << >>)}]

\* regexp.MustCompile("^" + QuoteMeta(base) + "_")
CompilePrefix(base) == [kind |-> "prefix", base |-> base]

\* the texts the capture group of re can take in a match at the beginning
\* of s: base, "_", the group, "_"
Submatches(re, s) ==
    LET lead == re.base \o << "_" >>
        from == Len(lead) + 1
        span == ClassRun(s, from)
    IN  IF ~HasPrefix(s, lead) THEN {}
        ELSE { SubSeq(s, from, from + sc[2] + Len(sc[1].text) - 1) :
                 sc \in { tc \in re.shapes \X (0..span) :
                            /\ tc[2] >= tc[1].count
                            /\ tc[1].more \/ tc[2] = tc[1].count
                            /\ HasPrefix(SubSeq(s, from + tc[2], Len(s)),
                                         tc[1].text \o << "_" >>) } }

\* re.FindStringSubmatch(s) for an expression with one capture group: the
\* whole match and the group, or nil.  In the expressions built here no two
\* ways of matching fit the same string.
FindStringSubmatch(re, s) ==
    LET found == Submatches(re, s)
    IN  IF found = {} THEN << >>
        ELSE LET group == CHOOSE g \in found : TRUE
             IN  << re.base \o << "_" >> \o group \o << "_" >>, group >>

\* re.MatchString(s) for "^" + base + "_" (kind "prefix")
MatchString(re, s) == HasPrefix(s, re.base \o << "_" >>)

ParsePrefixPattern(pattern0) ==
    LET pattern == TrimSpace(pattern0)
    IN  IF pattern = << >> THEN NilPrefixPattern
        ELSE IF Contains(pattern, << "{" >>) /\ Contains(pattern, << "}" >>)
        THEN LET parts         == SplitN2(pattern, "{")
                 base          == NormalizePrefix(parts[1])
                 templatePart  == TrimSuffix(parts[2], << "}" >>)
                 questionCount == Count(templatePart, "?")
             IN  IF Contains(templatePart, << "?" >>)
                 THEN IF CompileFixedLength(base, questionCount) = Panic
                      THEN Panic
                      ELSE [Original |-> pattern, NormalizedBase |-> base,
                            IsTemplate |-> TRUE,
                            Priority |-> 100 + questionCount,
                            Pattern |-> CompileFixedLength(base, questionCount)]
                 ELSE IF templatePart = << "*" >>
                 THEN [Original |-> pattern, NormalizedBase |-> base,
                       IsTemplate |-> TRUE, Priority |-> 50,
                       Pattern |-> CompileWildcard(base)]
                 ELSE [Original |-> pattern, NormalizedBase |-> base,
                       IsTemplate |-> TRUE, Priority |-> 0,
                       Pattern |-> NilRegexp]
        ELSE [Original |-> pattern, NormalizedBase |-> NormalizePrefix(pattern),
              IsTemplate |-> FALSE, Priority |-> 10,
              Pattern |-> CompilePrefix(NormalizePrefix(pattern))]

\* pp.MatchSecret(secretName): << matched, group name >>
MatchSecret(pp, secretName) ==
    IF pp.Pattern = NilRegexp THEN << FALSE, << >> >>
    ELSE LET name == ToUpper(secretName)
         IN  IF pp.IsTemplate
             THEN LET matches == FindStringSubmatch(pp.Pattern, name)
                  IN  IF Len(matches) > 1
                      THEN << TRUE, pp.NormalizedBase \o << "_" >> \o matches[2] >>
                      ELSE << FALSE, << >> >>
             ELSE IF MatchString(pp.Pattern, name)
                  THEN << TRUE, pp.NormalizedBase >>
                  ELSE << FALSE, << >> >>

General == << "G", "e", "n", "e", "r", "a", "l" >>

\* the loop at lines 138-143: the patterns that parse, in input order, or
\* the panic of the first pattern that cannot be compiled
RECURSIVE ParseAll(_)
ParseAll(patterns) ==
    IF patterns = << >> THEN [panic |-> FALSE, parsed |-> << >>]
    ELSE LET pp == ParsePrefixPattern(Head(patterns))
         IN  IF pp = Panic THEN [panic |-> TRUE, parsed |-> << >>]
             ELSE LET rest == ParseAll(Tail(patterns))
                  IN  IF pp # NilPrefixPattern
                      THEN [rest EXCEPT !.parsed = << pp >> \o @]
                      ELSE rest

\* one pass of the insertion sort: pp moves left past every pattern of a
\* lower priority
RECURSIVE InsertByPriority(_, _)
InsertByPriority(sorted, pp) ==
    IF sorted # << >> /\ pp.Priority > sorted[Len(sorted)].Priority
    THEN InsertByPriority(SubSeq(sorted, 1, Len(sorted) - 1), pp)
             \o << sorted[Len(sorted)] >>
    ELSE sorted \o << pp >>

\* the insertion sort that sort.Slice applies to slices of up to 12 elements
RECURSIVE InsertionSort(_)
InsertionSort(parsedPatterns) ==
    IF parsedPatterns = << >> THEN << >>
    ELSE InsertByPriority(
             InsertionSort(SubSeq(parsedPatterns, 1, Len(parsedPatterns) - 1)),
             parsedPatterns[Len(parsedPatterns)])

\* the orders of the slice with no pattern before one of a higher priority
PriorityOrders(parsedPatterns) ==
    LET n == Len(parsedPatterns)
    IN  { [k \in 1..n |-> parsedPatterns[perm[k]]] :
            perm \in { q \in [1..n -> 1..n] :
                         /\ \A a, b \in 1..n : a # b => q[a] # q[b]
                         /\ \A a, b \in 1..n :
                                a < b => parsedPatterns[q[a]].Priority
                                             >= parsedPatterns[q[b]].Priority } }

\* sort.Slice by priority, highest first: the orders it may leave.  Up to 12
\* elements it sorts by insertion, which keeps patterns of one priority in
\* input order; sort.Slice promises no order among equals, and on longer
\* slices it keeps none.
SortByPriority(parsedPatterns) ==
    IF Len(parsedPatterns) <= 12
    THEN { InsertionSort(parsedPatterns) }
    ELSE PriorityOrders(parsedPatterns)

\* the inner loop at lines 155-165: position of the first pattern that
\* matches, 0 if none does
FirstMatch(parsedPatterns, secretName) ==
    LET hits == {k \in 1..Len(parsedPatterns) :
                    MatchSecret(parsedPatterns[k], secretName)[1]}
    IN  IF hits = {} THEN 0 ELSE SetMin(hits)

\* groups[name] = append(groups[name], secret)
AppendTo(groups, name, secret) ==
    IF name \in DOMAIN groups
    THEN [groups EXCEPT ![name] = Append(@, secret)]
    ELSE groups @@ (name :> << secret >>)

\* the loop at lines 151-171
RECURSIVE GroupEach(_, _, _)
GroupEach(secrets, parsedPatterns, groups) ==
    IF secrets = << >> THEN groups
    ELSE LET secret == Head(secrets)
             k      == FirstMatch(parsedPatterns, secret.Name)
             name   == IF k = 0 THEN General
                       ELSE MatchSecret(parsedPatterns[k], secret.Name)[2]
         IN  GroupEach(Tail(secrets), parsedPatterns,
                       AppendTo(groups, name, secret))

\* lines 173-181: the result, without an empty "General"
SecretGroups(groups, patterns) ==
    [Groups   |-> IF Len(groups[General]) = 0
                  THEN [g \in DOMAIN groups \ {General} |-> groups[g]]
                  ELSE groups,
     Patterns |-> patterns]

\* GroupSecrets(secrets, patterns): what it may return, or its panic
GroupSecrets(secrets, patterns) ==
    LET all == ParseAll(patterns)
    IN  IF all.panic THEN { Panic }
        ELSE { SecretGroups(GroupEach(secrets, parsedPatterns, General :> << >>),
                            patterns) :
                 parsedPatterns \in SortByPriority(all.parsed) }

\* a template of n question marks under the base "P"
FixedLength(n) == << "P", "_", "{" >> \o [k \in 1..n |-> "?"] \o << "}" >>

\* patterns: plain prefixes (one in lower case with a trailing separator, one
\* longer than the other, one outside ASCII), fixed-length templates of 1, 2,
\* 10 and 43 characters, a wildcard template, a template that is neither,
\* and a blank
PatternP == << "P" >>

PatternLowerP == << "p", "_" >>

PatternPA == << "P", "_", "A" >>

PatternAe == << Rune(196) >>

PatternP1 == FixedLength(1)

PatternP2 == FixedLength(2)

PatternP10 == FixedLength(10)

PatternP43 == FixedLength(43)

PatternPStar == << "P", "_", "{", "*", "}" >>

PatternPOther == << "P", "_", "{", "x", "}" >>

PatternBlank == << Rune(11), " " >>

GroupPatterns ==
    { PatternP, PatternLowerP, PatternPA, PatternAe, PatternP1, PatternP2,
      PatternP10, PatternP43, PatternPStar, PatternPOther, PatternBlank }

\* secrets: names under "P_" with a middle part of two characters, of one
\* (in lower case), of ten, of one followed by "{:}", and with none; a name
\* outside ASCII, and a name no pattern matches
SecretPABK == [ID |-> 1, Name |-> << "P", "_", "A", "B", "_", "K" >>]

SecretLowerPAK == [ID |-> 2, Name |-> << "p", "_", "a", "_", "k" >>]

SecretPK == [ID |-> 3, Name |-> << "P", "_", "K" >>]

SecretDK == [ID |-> 4, Name |-> << "D", "_", "K" >>]

SecretP10K ==
    [ID |-> 5,
     Name |-> << "P", "_", "A", "B", "C", "D", "E", "F", "G", "H", "I", "J",
                 "_", "K" >>]

SecretPBraceK ==
    [ID |-> 6, Name |-> << "P", "_", "A", "{", ":", "}", "_", "K" >>]

SecretAeK == [ID |-> 7, Name |-> << Rune(228), "_", "k" >>]

GroupSecretsOf ==
    { SecretPABK, SecretLowerPAK, SecretPK, SecretDK, SecretP10K,
      SecretPBraceK, SecretAeK }

InitGroups ==
    /\ retryCount = 0
    /\ repoConfig = <<>>
    /\ ignoreTemplateFiles = FALSE
    /\ restart = FALSE
    /\ oldConfigData = <<>>
    /\ stableForge = FALSE
    /\ pc = "groups"
    /\ i = 0
    /\ files = <<>>
    /\ err = Nil
    /\ configs = <<>>
    /\ idx = 1
    /\ dirListed = FALSE
    /\ forgeErr = <<>>
    /\ inFlight = <<>>
    /\ ctxErr = "none"
    /\ parentDone = FALSE
    /\ cancelledIn = 0
    /\ bornCancelled = FALSE
    /\ calls = <<>>
    /\ attempts = 0
    /\ cascadeRet = NoCascade
    /\ answered = <<>>
    /\ run = 1
    /\ firstOutcome = NoOutcome
    /\ hListing = <<>>
    /\ hFiltered = <<>>
    /\ hVerdict = Nil
    /\ gSecrets \in UNION { [1..n -> GroupSecretsOf] : n \in 0..MaxSecrets }
    /\ gPatterns \in UNION { [1..n -> GroupPatterns] : n \in 0..MaxPatterns }
    /\ gGroups = NoGroups

\* GroupSecrets(secrets, patterns)
CallGroupSecrets ==
    /\ pc = "groups"
    /\ \E result \in GroupSecrets(gSecrets, gPatterns) :
           /\ gGroups' = result
           /\ pc' = IF result = Panic THEN "panicked" ELSE "grouped"
    /\ UNCHANGED << inputs, i, files, err, cascadeVars, ctxErr, parentDone, cancelledIn,
                    bornCancelled,
                    calls, attempts, cascadeRet, answered, run, firstOutcome,
                    hListing, hFiltered, hVerdict, gSecrets, gPatterns >>

NextGroups == CallGroupSecrets

SpecGroups == InitGroups /\ [][NextGroups]_vars

----------------------------------------------------------------------------
(* Vocabulary of the properties *)

\* the override as fetch receives it
Config == TrimSpace(repoConfig)

\* two entries of fs have the same logical name
HasClash(fs) ==
    \E a, b \in 1..Len(fs) :
        a < b /\ LogicalName(fs[a].Name) = LogicalName(fs[b].Name)

\* the file set a forge call's answer stands for
Produced(c) ==
    IF c.op = "Dir" THEN filterPipelineFiles(c.files, ignoreTemplateFiles)
    ELSE <<FileMeta(c.path, c.data)>>

\* the call's answer is a non-empty, duplicate-free file set
Matches(c) ==
    /\ c.err = Nil
    /\ IF c.op = "Dir"
       THEN Len(Produced(c)) > 0 /\ ~HasClash(Produced(c))
       ELSE Len(c.data) > 0

\* the call is a directory listing whose filtered entries clash
Clashes(c) == c.op = "Dir" /\ c.err = Nil /\ HasClash(Produced(c))

\* the cascade of the latest attempt has returned
CascadeReturned == pc # "cascade" /\ attempts > 0 /\ cascadeRet.attempt = attempts

CtxDone(ctx) == ctx \in {"context.Canceled", "context.DeadlineExceeded"}

----------------------------------------------------------------------------
(* Properties *)

\* C1: first match wins.  Within one cascade, a forge call whose answer is a
\* non-empty, duplicate-free file set is the last forge call of that cascade,
\* and the cascade returns exactly that file set without error.
C1_FirstMatchWins ==
    \A k \in 1..Len(calls) :
        Matches(calls[k]) =>
            /\ k = Len(calls)
            /\ CascadeReturned
            /\ cascadeRet.err = Nil
            /\ cascadeRet.files = Produced(calls[k])

\* a directory in the middle of the default order won after an earlier
\* candidate had been probed, and the candidate after it was never probed
C1_Witness ==
    /\ pc = "done"
    /\ Config = <<>>
    /\ Len(calls) = 2
    /\ calls[2].op = "Dir"
    /\ Matches(calls[2])
    /\ calls[2].candidate < Len(DefaultConfigOrder)
    /\ Len(files) = 2

\* C2: every outcome of Fetch is an error or a non-empty file sequence.
C2_ErrorOrNonEmpty == pc = "done" => (err # Nil \/ Len(files) > 0)

\* C3 as stated: on every successful outcome of Fetch no two returned files
\* share a logical name.
C3_SuccessUniqueNames == (pc = "done" /\ err = Nil) => ~HasClash(files)

\* C3, amended: on every successful outcome of Fetch that comes from a
\* cascade (the restart short-circuit was not taken) no two returned files
\* share a logical name.
C3_CascadeSuccessUniqueNames ==
    (pc = "done" /\ err = Nil /\ ~(restart /\ Len(oldConfigData) > 0)) =>
        ~HasClash(files)

\* a directory listing with several entries was returned
C3_Witness ==
    /\ pc = "done"
    /\ err = Nil
    /\ attempts > 0
    /\ Len(files) = 2
    /\ ~HasClash(files)

\* C4: restart short-circuit.  With restart set and non-empty prior data,
\* Fetch issues no forge call, starts no attempt, derives no timeout context,
\* and returns the prior data unchanged with no error.
C4_RestartShortCircuit ==
    (restart /\ Len(oldConfigData) > 0) =>
        /\ pc \in {"start", "done"}
        /\ calls = <<>>
        /\ attempts = 0
        /\ ctxErr = "none"
        /\ pc = "done" => (files = oldConfigData /\ err = Nil)

\* the short-circuit returned although attempts were configured
C4_Witness ==
    /\ pc = "done"
    /\ restart
    /\ retryCount > 0
    /\ files = PriorClash

\* C5: a name clash aborts the cascade.  A directory listing whose filtered
\* entries clash is the last forge call of its cascade, and the cascade
\* returns the DuplicateName error, not an aggregate and not NotFound.
C5_DuplicateAborts ==
    \A k \in 1..Len(calls) :
        Clashes(calls[k]) =>
            /\ k = Len(calls)
            /\ CascadeReturned
            /\ cascadeRet.files = <<>>
            /\ cascadeRet.err.kind = "DuplicateName"

\* the clash came after a recorded forge error and before the last candidate
C5_Witness ==
    /\ pc = "loop"
    /\ Len(calls) = 2
    /\ calls[1].err = ErrForge
    /\ Clashes(calls[2])
    /\ calls[2].candidate < Len(DefaultConfigOrder)
    /\ cascadeRet.err.kind = "DuplicateName"

\* C6: DuplicateName is never retried.  Once an attempt ended with a
\* DuplicateName error, no further attempt starts and no forge call is made.
C6_DuplicateNeverRetried ==
    [][(pc = "loop" /\ CascadeReturned /\ cascadeRet.err.kind = "DuplicateName")
          => (attempts' = attempts /\ calls' = calls)]_vars

\* C7 as stated: if every attempt failed and the attempt's context was done
\* when the final cascade returned, Fetch returns the context's error, in the
\* default branch and in the override branch.
C7_TimeoutSurfaces ==
    (pc = "done" /\ attempts > 0 /\ err # Nil /\ CtxDone(cascadeRet.ctx)) =>
        err = CtxError(cascadeRet.ctx)

\* C7, amended: under the same condition Fetch returns the context's error
\* in the default branch; in the override branch it returns the "user
\* defined config not found" error wrapping the cascade's error.
C7_TimeoutSurfacesInDefaultBranch ==
    (pc = "done" /\ attempts > 0 /\ err # Nil /\ CtxDone(cascadeRet.ctx)) =>
        IF Config = <<>>
        THEN err = CtxError(cascadeRet.ctx)
        ELSE err = ErrUserDefined(Config, cascadeRet.err)

\* the last of several failed attempts of the default branch timed out
C7_Witness ==
    /\ pc = "done"
    /\ Config = <<>>
    /\ attempts >= 2
    /\ cascadeRet.ctx = "context.DeadlineExceeded"
    /\ cascadeRet.err.kind = "ErrConfigNotFound"
    /\ err = CtxError("context.DeadlineExceeded")

\* C8 as stated: whenever the final cascade ended with DuplicateName, the
\* error Fetch returns is or wraps it, in both branches and whatever the
\* state of the context.
C8_DuplicateSurfaces ==
    (pc = "done" /\ attempts > 0 /\ cascadeRet.err.kind = "DuplicateName") =>
        ErrorsIs(err, "DuplicateName")

\* C8, amended: whenever the final cascade ended with DuplicateName, Fetch
\* returns an error wrapping it, except in the default branch with the
\* attempt's context done, where Fetch returns the context's error.
C8_DuplicateSurfacesUnlessDefaultTimeout ==
    (pc = "done" /\ attempts > 0 /\ cascadeRet.err.kind = "DuplicateName") =>
        IF Config = <<>> /\ CtxDone(cascadeRet.ctx)
        THEN err = CtxError(cascadeRet.ctx)
        ELSE /\ ErrorsIs(err, "DuplicateName")
             /\ err.cause = cascadeRet.err

\* a clash under a directory override surfaced although the context was done
C8_Witness ==
    /\ pc = "done"
    /\ Len(Config) > 0
    /\ CtxDone(cascadeRet.ctx)
    /\ cascadeRet.err.kind = "DuplicateName"
    /\ ErrorsIs(err, "DuplicateName")

\* C9: override exclusivity.  With a non-blank override every attempt runs
\* the cascade over the one-element list holding the trimmed override, every
\* forge call is for that candidate, every failure is reported as "user
\* defined config not found", and a not-found answer yields that error
\* around NotFound for the override alone.
C9_OverrideExclusive ==
    Len(Config) > 0 =>
        /\ pc = "cascade" => configs = <<Config>>
        /\ \A k \in 1..Len(calls) :
               /\ calls[k].candidate = 1
               /\ calls[k].path \in {Config, TrimSuffix(Config, Slash)}
        /\ (attempts > 0 /\ pc # "cascade" /\ err # Nil) =>
               /\ err.kind = "UserDefinedConfigNotFound"
               /\ err.config = Config
        /\ (CascadeReturned /\ cascadeRet.err.kind = "ErrConfigNotFound") =>
               err = ErrUserDefined(Config, ErrConfigNotFound(<<Config>>))

\* the override, stored with surrounding whitespace, was not found in any of
\* several attempts
C9_Witness ==
    /\ pc = "done"
    /\ repoConfig # Config
    /\ Config = CustomYml
    /\ attempts >= 2
    /\ calls = << [candidate |-> 1, op |-> "File", path |-> CustomYml,
                   files |-> <<>>, data |-> NoData,
                   err |-> ErrConfigNotFound(<<>>)] >>
    /\ err = ErrUserDefined(CustomYml, ErrConfigNotFound(<<CustomYml>>))

\* C10: retry stops at first success.  At most retryCount attempts are made;
\* as soon as an attempt's cascade returns no error, Fetch is finished with
\* that attempt's file set and no error, and no later attempt exists.
C10_RetryStopsAtFirstSuccess ==
    /\ attempts <= retryCount
    /\ (attempts > 0 /\ cascadeRet.attempt > 0 /\ cascadeRet.err = Nil) =>
           /\ pc = "done"
           /\ attempts = cascadeRet.attempt
           /\ files = cascadeRet.files
           /\ err = Nil

\* the second of three configured attempts succeeded
C10_Witness ==
    /\ pc = "done"
    /\ retryCount = 3
    /\ attempts = 2
    /\ err = Nil
    /\ Len(files) > 0

\* the cascade's error is its "not found" error or its aggregate
IsNotFound(e) == e.kind = "ErrConfigNotFound"

IsAggregate(e) == e.kind = "Join"

\* e is what fetch makes of the cascade's error cerr without looking at the
\* context
WrapsCascadeError(e, cerr) ==
    /\ e.kind \in {"UserDefinedConfigNotFound", "FallbackDidNotFindConfig"}
    /\ e.cause = cerr

\* Fetch has returned the "not found" error or the aggregate of some cascade
ReturnedNotFoundOrAggregate ==
    /\ pc = "done"
    /\ err # Nil
    /\ err.kind \in {"UserDefinedConfigNotFound", "FallbackDidNotFindConfig"}
    /\ IsNotFound(err.cause) \/ IsAggregate(err.cause)

\* C11: "not found" and the aggregate surface only once the retry budget is
\* used up.  Whenever Fetch returns one of them, exactly retryCount attempts
\* were made, every one of them failed, and the error returned is the one of
\* the last attempt.
C11_SurfacesAfterBudget ==
    ReturnedNotFoundOrAggregate =>
        /\ attempts = retryCount
        /\ i = retryCount
        /\ cascadeRet.attempt = retryCount
        /\ WrapsCascadeError(err, cascadeRet.err)

\* three attempts were made and the third one's aggregate is returned
C11_Witness ==
    /\ ReturnedNotFoundOrAggregate
    /\ retryCount = 3
    /\ attempts = 3
    /\ IsAggregate(err.cause)
    /\ err.cause = cascadeRet.err

\* the candidate list a cascade of this call is given
Candidates == IF Len(Config) > 0 THEN <<Config>> ELSE DefaultConfigOrder

\* a real error: an error other than "not found" and "not implemented"
IsReal(e) == e # Nil /\ e.kind \notin {"ErrConfigNotFound", "ErrNotImplemented"}

\* the answer of the call carries an error that the cascade keeps for its
\* aggregate: any error but "not found" and, for a listing, "not implemented"
Recorded(c) ==
    /\ c.err # Nil
    /\ c.err.kind # "ErrConfigNotFound"
    /\ c.op = "Dir" => c.err.kind # "ErrNotImplemented"

\* the errors of the recorded calls, in call order
RecordedErrors ==
    LET kept == SelectSeq(calls, Recorded)
    IN  [k \in 1..Len(kept) |-> kept[k].err]

\* the answer of the call ends the cascade
EndsCascade(c) ==
    /\ c.err = Nil
    /\ c.op = "Dir" => Len(Produced(c)) > 0

\* the latest cascade has gone through all its candidates and none ended it
CascadeWasExhausted ==
    /\ CascadeReturned
    /\ \A n \in 1..Len(Candidates) : \E k \in 1..Len(calls) : calls[k].candidate = n
    /\ \A k \in 1..Len(calls) : ~EndsCascade(calls[k])

\* C12: aggregate on exhaustion.  If the cascade goes through every candidate
\* without success and some candidate answered with a real error, the cascade
\* returns one aggregate error holding exactly the recorded errors, in
\* candidate order, and not the "not found" error.
C12_AggregateOnExhaustion ==
    (CascadeWasExhausted /\ \E k \in 1..Len(calls) : IsReal(calls[k].err)) =>
        /\ cascadeRet.files = <<>>
        /\ IsAggregate(cascadeRet.err)
        /\ cascadeRet.err.errs = RecordedErrors

\* every default candidate answered with an error, the first with another
\* error than the later two, and the aggregate lists the three in that order
C12_Witness ==
    /\ CascadeWasExhausted
    /\ Config = <<>>
    /\ Len(calls) = 3
    /\ cascadeRet.err = Join(<<ErrNotImplemented, ErrForge, ErrForge>>)

\* C13 as stated: if the cascade goes through every candidate without success
\* and no candidate answered with a real error, the cascade returns the
\* "not found" error naming the full candidate list in order.
C13_NotFoundOnAbsence ==
    (CascadeWasExhausted /\ \A k \in 1..Len(calls) : ~IsReal(calls[k].err)) =>
        cascadeRet.err = ErrConfigNotFound(Candidates)

\* C13, amended: if the cascade goes through every candidate without success
\* and recorded no error, where "not implemented" from a file lookup is
\* recorded like any other error, the cascade returns the "not found" error
\* naming the full candidate list in order.
C13_NotFoundWhenNothingRecorded ==
    (CascadeWasExhausted /\ \A k \in 1..Len(calls) : ~Recorded(calls[k])) =>
        /\ cascadeRet.files = <<>>
        /\ cascadeRet.err = ErrConfigNotFound(Candidates)

\* the three default candidates were all absent, the directory unsupported
C13_Witness ==
    /\ CascadeWasExhausted
    /\ Len(calls) = 3
    /\ calls[2].op = "Dir"
    /\ calls[2].err = ErrNotImplemented
    /\ cascadeRet.err = ErrConfigNotFound(DefaultConfigOrder)

\* the number of "not implemented" errors among errs
NotImplementedIn(errs) ==
    Cardinality({k \in 1..Len(errs) : errs[k] = ErrNotImplemented})

\* the number of file lookups of the latest attempt answered "not implemented"
FileNotImplemented ==
    Cardinality({k \in 1..Len(calls) :
                    calls[k].op = "File" /\ calls[k].err = ErrNotImplemented})

\* C14 as stated: "not implemented" is never surfaced.  Whatever forge call
\* answers it, directory listing or file lookup, the error is neither in nor
\* wrapped by the error that the cascade or Fetch returns.
C14_UnsupportedNeverSurfaced ==
    /\ CascadeReturned => ~ErrorsIs(cascadeRet.err, "ErrNotImplemented")
    /\ pc = "done" => ~ErrorsIs(err, "ErrNotImplemented")

\* C14, amended: "not implemented" from a directory listing is never
\* surfaced.  The error that the cascade or Fetch returns holds a
\* "not implemented" error only for a file lookup that answered it, one for
\* each such lookup, inside the aggregate.
C14_DirUnsupportedNeverSurfaced ==
    /\ pc = "cascade" => NotImplementedIn(forgeErr) = FileNotImplemented
    /\ CascadeReturned =>
           IF IsAggregate(cascadeRet.err)
           THEN NotImplementedIn(cascadeRet.err.errs) = FileNotImplemented
           ELSE ~ErrorsIs(cascadeRet.err, "ErrNotImplemented")
    /\ (pc = "done" /\ ErrorsIs(err, "ErrNotImplemented")) =>
           /\ FileNotImplemented > 0
           /\ WrapsCascadeError(err, cascadeRet.err)

\* the listing answered "not implemented", a file lookup failed otherwise,
\* and Fetch returned the aggregate without the listing's error
C14_Witness ==
    /\ pc = "done"
    /\ CascadeWasExhausted
    /\ \E k \in 1..Len(calls) :
           calls[k].op = "Dir" /\ calls[k].err = ErrNotImplemented
    /\ FileNotImplemented = 0
    /\ IsAggregate(cascadeRet.err)
    /\ WrapsCascadeError(err, cascadeRet.err)

\* the call is a directory listing that succeeded with nothing eligible in it
EmptyFiltered(c) == c.op = "Dir" /\ c.err = Nil /\ Len(Produced(c)) = 0

\* C15: an empty filtered listing is a pure soft miss.  After a directory
\* listing that succeeds with nothing eligible in it, the cascade makes no
\* further forge call for that candidate, records no error and returns no
\* success because of it, and goes on with the next candidate.
C15_EmptyListingIsSoftMiss ==
    \A k \in 1..Len(calls) :
        EmptyFiltered(calls[k]) =>
            /\ \A j \in (k + 1)..Len(calls) :
                   calls[j].candidate # calls[k].candidate
            /\ (k = Len(calls) /\ pc = "cascade") =>
                   /\ idx = calls[k].candidate + 1
                   /\ forgeErr = RecordedErrors

\* the cascade ended at the k-th call of the attempt, without error
WonAt(k) == k = Len(calls) /\ CascadeReturned /\ cascadeRet.err = Nil

\* C16: classification of a single-file candidate.  The candidate wins only
\* when forge.File answers non-empty content and no error, and the result is
\* then the one file named like the candidate with that content; after a
\* "not found" answer nothing is recorded and after any other error the
\* error is recorded, and the cascade goes on with the next candidate.
C16_FileCandidateClassification ==
    \A k \in 1..Len(calls) :
        (calls[k].op = "File" /\ ~HasSuffix(calls[k].path, Slash)) =>
            /\ WonAt(k) <=> (calls[k].err = Nil /\ Len(calls[k].data) > 0)
            /\ WonAt(k) =>
                   cascadeRet.files = <<FileMeta(calls[k].path, calls[k].data)>>
            /\ (k = Len(calls) /\ pc = "cascade") =>
                   /\ idx = calls[k].candidate + 1
                   /\ forgeErr = RecordedErrors

\* a file is eligible: an accepted extension and, when template files are
\* ignored, no "template" in its name whatever the case
Eligible(file) ==
    /\ HasSuffix(file.Name, DotYml) \/ HasSuffix(file.Name, DotYaml)
    /\ ignoreTemplateFiles => ~Contains(ToLower(file.Name), TemplateWord)

\* the eligible entries of a listing, in the order of the listing
EligibleEntries(listing) ==
    LET kept == {k \in 1..Len(listing) : Eligible(listing[k])}
        nth(j) == CHOOSE k \in kept : Cardinality({m \in kept : m < k}) = j - 1
    IN  [j \in 1..Cardinality(kept) |-> listing[nth(j)]]

\* C19: a winning directory keeps the order of its listing.  When a
\* directory candidate wins, the files returned are all the entries of the
\* listing that pass the filter, in the order in which the forge listed
\* them, names and contents unchanged.
C19_DirectoryOrderPreserved ==
    (Len(calls) > 0 /\ calls[Len(calls)].op = "Dir" /\ WonAt(Len(calls))) =>
        /\ cascadeRet.files = EligibleEntries(calls[Len(calls)].files)
        /\ pc = "done"
        /\ files = cascadeRet.files

\* the first and the third entry of a listing were returned, in that order,
\* the ineligible entry between them left out
C19_Witness ==
    /\ pc = "done"
    /\ Len(calls) > 0
    /\ calls[Len(calls)].op = "Dir"
    /\ Len(calls[Len(calls)].files) = 3
    /\ files = <<calls[Len(calls)].files[1], calls[Len(calls)].files[3]>>
    /\ files[1] # files[2]

\* how often the file occurs in the sequence
Occurrences(file, fs) == Cardinality({k \in 1..Len(fs) : fs[k] = file})

AcceptedExtension(name) == HasSuffix(name, DotYml) \/ HasSuffix(name, DotYaml)

\* C17: the Candidate Filter.  For every listing the output is a
\* sub-collection of the input and every output name ends in ".yml" or
\* ".yaml"; when template files are ignored no output name contains
\* "template" in any case, and when they are not, a name is not left out for
\* containing "template".
C17_CandidateFilter ==
    pc = "filtered" =>
        /\ \A k \in 1..Len(hFiltered) :
               /\ Occurrences(hFiltered[k], hFiltered)
                      <= Occurrences(hFiltered[k], hListing)
               /\ AcceptedExtension(hFiltered[k].Name)
               /\ ignoreTemplateFiles =>
                      ~Contains(ToLower(hFiltered[k].Name), TemplateWord)
        /\ ~ignoreTemplateFiles =>
               \A k \in 1..Len(hListing) :
                   AcceptedExtension(hListing[k].Name) =>
                       Occurrences(hListing[k], hFiltered)
                           = Occurrences(hListing[k], hListing)

\* of three entries with accepted extensions, the two with "template" in
\* their names, one of them in mixed case, were left out
C17_Witness ==
    /\ pc = "filtered"
    /\ ignoreTemplateFiles
    /\ hListing = <<FileMeta(TemplateYml, DataA), FileMeta(BYaml, DataA),
                    FileMeta(MixedTemplateYaml, DataA)>>
    /\ hFiltered = <<FileMeta(BYaml, DataA)>>

\* the entries that repeat the logical name of an earlier entry
Repeats(fs) ==
    {b \in 1..Len(fs) :
        \E a \in 1..(b - 1) : LogicalName(fs[a].Name) = LogicalName(fs[b].Name)}

\* the earliest entry with the logical name of entry b
Earliest(fs, b) ==
    SetMin({a \in 1..b : LogicalName(fs[a].Name) = LogicalName(fs[b].Name)})

\* C18: the Uniqueness Validator.  For every file sequence it fails if and
\* only if two entries have the same logical name; the error then names the
\* logical name, the path of the earliest entry with that name and the path
\* of the first later entry, in input order, that repeats a name.
C18_UniquenessValidator ==
    pc = "validated" =>
        IF Repeats(hListing) = {}
        THEN hVerdict = Nil
        ELSE LET b == SetMin(Repeats(hListing))
                 a == Earliest(hListing, b)
             IN  /\ a < b
                 /\ hVerdict = ErrDuplicate(LogicalName(hListing[b].Name),
                                            hListing[a].Name, hListing[b].Name)

\* the second and the third entry both repeat a name, and the error is
\* about the second one and the first
C18_Witness ==
    /\ pc = "validated"
    /\ Len(hListing) = 3
    /\ Repeats(hListing) = {2, 3}
    /\ hListing[2].Name # hListing[3].Name
    /\ hListing[1].Name # hListing[2].Name
    /\ hVerdict = ErrDuplicate(LogicalName(hListing[1].Name),
                               hListing[1].Name, hListing[2].Name)

\* the class of an error: none, a context that is done, a name clash,
\* plain absence, or an aggregate of forge errors
Classification(e) ==
    IF e = Nil THEN "none"
    ELSE IF CtxDone(e.kind) THEN "Timeout"
    ELSE IF ErrorsIs(e, "DuplicateName") THEN "DuplicateName"
    ELSE IF ErrorsIs(e, "ErrConfigNotFound") THEN "NotFound"
    ELSE "AggregateFetchFailure"

SecondCallReturned == run = 2 /\ pc = "done"

\* C20 as stated: for a forge whose answers do not change and the same
\* policy, retry count and candidate order, two calls of Fetch return the
\* same file sequence or errors of the same class.
C20_Idempotent ==
    SecondCallReturned =>
        /\ files = firstOutcome.files
        /\ Classification(err) = Classification(firstOutcome.err)

\* C20, amended: under the same conditions two calls of Fetch return the
\* same file sequence, both fail or neither does, and their last cascades
\* return the same; the errors are of the same class when the user override
\* is in use, or when the contexts of the last attempts are both live or
\* both done at the return of the cascade.
C20_IdempotentUpToContext ==
    SecondCallReturned =>
        /\ files = firstOutcome.files
        /\ (err = Nil) <=> (firstOutcome.err = Nil)
        /\ cascadeRet.attempt = firstOutcome.cascade.attempt
        /\ cascadeRet.files = firstOutcome.cascade.files
        /\ cascadeRet.err = firstOutcome.cascade.err
        /\ (\/ Len(Config) > 0
            \/ CtxDone(cascadeRet.ctx) = CtxDone(firstOutcome.cascade.ctx)) =>
               Classification(err) = Classification(firstOutcome.err)

\* both calls went through the default order twice and returned the same
\* aggregate, the context of the second call being live at the end like
\* that of the first
C20_Witness ==
    /\ SecondCallReturned
    /\ Config = <<>>
    /\ attempts = 2
    /\ IsAggregate(cascadeRet.err)
    /\ cascadeRet.ctx = "live"
    /\ firstOutcome.cascade.ctx = "live"
    /\ err = firstOutcome.err
    /\ WrapsCascadeError(err, cascadeRet.err)

\* C21: a fresh timeout for every attempt.  An attempt derives its context
\* from the enclosing one when it begins: while the enclosing context is
\* live the attempt starts with a live context, whatever became of the
\* timeout of the attempt before, and goes on to make its forge calls.
C21_FreshTimeoutPerAttempt ==
    [][(attempts' = attempts + 1 /\ ~parentDone) =>
          (ctxErr' = "live" /\ pc' = "cascade" /\ inFlight' = <<>>)]_vars

\* the first attempt ran into its timeout and failed; the second one has a
\* live context and a forge call of it has returned
C21_Witness ==
    /\ pc = "cascade"
    /\ attempts = 2
    /\ err = CtxError("context.DeadlineExceeded")
    /\ ~parentDone
    /\ ctxErr = "live"
    /\ Len(calls) = 1

\* C22: success beats cancellation.  If the cascade of an attempt returns
\* without error, Fetch returns the cascade's file set and no error, whatever
\* the state of the enclosing context and of the attempt's timeout.
C22_SuccessBeatsCancellation ==
    (CascadeReturned /\ cascadeRet.err = Nil) =>
        /\ pc = "done"
        /\ err = Nil
        /\ files = cascadeRet.files

\* with the default order, the timeout had expired when the cascade
\* returned two files, and Fetch returned them
C22_Witness ==
    /\ pc = "done"
    /\ Config = <<>>
    /\ cascadeRet.ctx = "context.DeadlineExceeded"
    /\ cascadeRet.err = Nil
    /\ Len(files) = 2
    /\ err = Nil

\* C23: strict sequentiality.  Within one call of Fetch at most one forge
\* call is in flight, and only inside a running attempt; a forge call is
\* made only when none is in flight, and an attempt begins only when the
\* attempt before it has returned.
C23_StrictlySequential ==
    /\ [](Len(inFlight) <= 1 /\ (Len(inFlight) = 1 => pc = "cascade"))
    /\ [][/\ Len(inFlight') > Len(inFlight) => Len(inFlight) = 0
          /\ attempts' = attempts + 1 =>
                 /\ pc = "loop"
                 /\ Len(inFlight) = 0
                 /\ cascadeRet.attempt = attempts]_vars

\* the first attempt failed; the file lookup of the third candidate of the
\* second attempt is in flight, the two probes before it have returned
C23_Witness ==
    /\ attempts = 2
    /\ err # Nil
    /\ Len(calls) = 2
    /\ idx = 3
    /\ inFlight = <<Pending("File", CiYml)>>

\* the call is a directory listing answered "not implemented" or "not found"
DirSoftMiss(c) ==
    /\ c.op = "Dir"
    /\ c.err # Nil
    /\ c.err.kind \in {"ErrNotImplemented", "ErrConfigNotFound"}

\* C24: the directory soft miss.  After "not implemented" or "not found"
\* from forge.Dir the cascade records no error, makes no file lookup for
\* that candidate and goes on with the next one; if every candidate ends
\* this way the cascade returns "not found" and no aggregate.
C24_DirectorySoftMiss ==
    /\ \A k \in 1..Len(calls) :
           DirSoftMiss(calls[k]) =>
               /\ \A j \in (k + 1)..Len(calls) :
                      calls[j].candidate # calls[k].candidate
               /\ (k = Len(calls) /\ pc = "cascade") =>
                      /\ idx = calls[k].candidate + 1
                      /\ forgeErr = RecordedErrors
    /\ (/\ CascadeReturned
        /\ Len(calls) = Len(Candidates)
        /\ \A k \in 1..Len(calls) : DirSoftMiss(calls[k])) =>
           /\ cascadeRet.files = <<>>
           /\ cascadeRet.err = ErrConfigNotFound(Candidates)

\* the only candidate is a directory, the forge cannot list directories,
\* and the cascade returned "not found" after that one call
C24_Witness ==
    /\ CascadeReturned
    /\ Candidates = <<CiDir>>
    /\ Len(calls) = 1
    /\ calls[1].op = "Dir"
    /\ calls[1].err = ErrNotImplemented
    /\ cascadeRet.err = ErrConfigNotFound(<<CiDir>>)

\* C25: a recorded error does not block a later match.  If a candidate
\* answers with a real error and a later candidate with a non-empty,
\* duplicate-free file set, the cascade returns that file set without error
\* and nothing of the recorded errors, and so does Fetch.
C25_SoftFailDoesNotBlockMatch ==
    \A a, b \in 1..Len(calls) :
        (/\ calls[a].candidate < calls[b].candidate
         /\ IsReal(calls[a].err)
         /\ Matches(calls[b])) =>
            /\ b = Len(calls)
            /\ CascadeReturned
            /\ cascadeRet.err = Nil
            /\ cascadeRet.files = Produced(calls[b])
            /\ pc = "done"
            /\ err = Nil
            /\ files = Produced(calls[b])

\* the file lookup of the first candidate and the listing of the second
\* failed, the third candidate was found and is what Fetch returned
C25_Witness ==
    /\ pc = "done"
    /\ Len(calls) = 3
    /\ calls[1].op = "File" /\ calls[1].err = ErrForge
    /\ calls[2].op = "Dir" /\ calls[2].err = ErrForge
    /\ calls[3].op = "File" /\ Matches(calls[3])
    /\ err = Nil
    /\ files = <<FileMeta(CiYml, DataA)>>

\* the forge path that a call for the candidate is made with
PathOf(candidate, op) ==
    IF op = "Dir" THEN TrimSuffix(candidate, Slash) ELSE candidate

\* C26: the default branch.  When the override is empty or blank, every
\* attempt runs the cascade over the default candidate order, probing the
\* candidates in that order from the first on, and no failure is reported
\* as "user defined config not found".
C26_DefaultBranchOnEmptyOverride ==
    Len(Config) = 0 =>
        /\ pc = "cascade" => configs = DefaultConfigOrder
        /\ \A k \in 1..Len(calls) :
               /\ calls[k].candidate \in 1..Len(DefaultConfigOrder)
               /\ calls[k].path =
                      PathOf(DefaultConfigOrder[calls[k].candidate], calls[k].op)
               /\ calls[k].candidate =
                      IF k = 1 THEN 1
                      ELSE IF calls[k - 1].op = "Dir" /\ calls[k].op = "File"
                              /\ EmptyFiltered(calls[k - 1])
                      THEN calls[k - 1].candidate
                      ELSE calls[k - 1].candidate + 1
        /\ \A k \in 1..Len(inFlight) : inFlight[k].path \in
               {PathOf(DefaultConfigOrder[n], inFlight[k].op) :
                   n \in 1..Len(DefaultConfigOrder)}
        /\ pc = "done" => ~ErrorsIs(err, "UserDefinedConfigNotFound")

\* the override is blank, two attempts went through the three default
\* candidates and Fetch reported that the fallback found nothing
C26_Witness ==
    /\ pc = "done"
    /\ Len(repoConfig) > 0
    /\ Len(Config) = 0
    /\ attempts = 2
    /\ Len(calls) = 3
    /\ err = ErrFallback(ErrConfigNotFound(DefaultConfigOrder))

\* C27: the zero attempt count.  With retryCount 0 and no restart
\* short-circuit, Fetch makes no forge call and returns no files and no
\* error.
C27_ZeroAttemptCount ==
    (retryCount = 0 /\ ~(restart /\ Len(oldConfigData) > 0)) =>
        /\ attempts = 0
        /\ calls = <<>>
        /\ inFlight = <<>>
        /\ pc = "done" => (files = <<>> /\ err = Nil)

\* Fetch has returned without an attempt, prior data at hand but no restart
C27_Witness ==
    /\ pc = "done"
    /\ retryCount = 0
    /\ ~restart
    /\ Len(oldConfigData) > 0
    /\ files = <<>>
    /\ err = Nil

\* Fetch has returned, and the enclosing context was cancelled while an
\* attempt before the last configured one was running, which then failed
ReturnedAfterCancelledAttempt ==
    /\ pc = "done"
    /\ cancelledIn >= 1
    /\ cancelledIn < retryCount
    /\ (attempts > cancelledIn \/ err # Nil)

\* C28 as stated: cancellation does not end the retry loop.  If the
\* enclosing context is cancelled while an attempt before the last one is
\* running and that attempt fails, Fetch starts every remaining attempt
\* before it returns.
C28_EveryRemainingAttempt == ReturnedAfterCancelledAttempt => attempts = retryCount

\* C28, amended: under the same condition Fetch starts the next attempt, and
\* after every further failed attempt the one after it, each with a context
\* derived from the cancelled one and each making forge calls; it returns
\* only after attempt retryCount or after an attempt whose cascade returned
\* without error.
C28_AttemptsGoOnAfterCancellation ==
    /\ [](ReturnedAfterCancelledAttempt => (attempts = retryCount \/ err = Nil))
    /\ []((CascadeReturned /\ bornCancelled) =>
              (Len(calls) >= 1 /\ cascadeRet.ctx = "context.Canceled"))
    /\ [][(pc = "loop" /\ i < retryCount /\ parentDone /\ pc' # pc) =>
              /\ pc' = "cascade"
              /\ attempts' = attempts + 1
              /\ ctxErr' = "context.Canceled"
              /\ bornCancelled']_vars

\* the third of three attempts began with a cancelled context, called the
\* forge for each default candidate and failed, and Fetch returned after it
C28_Witness ==
    /\ ReturnedAfterCancelledAttempt
    /\ cancelledIn = 1
    /\ bornCancelled
    /\ retryCount = 3
    /\ attempts = 3
    /\ Len(calls) = 3
    /\ cascadeRet.ctx = "context.Canceled"
    /\ err # Nil

----------------------------------------------------------------------------
(* Secret grouping *)

\* GroupSecrets has returned or panicked
Grouped == pc \in {"grouped", "panicked"}

\* the group names a pattern gives a secret name by the meaning of the
\* pattern: a plain prefix P names the group P of the names that begin with
\* P and "_"; P_{*} names the group P_X of the names that begin with P, "_",
\* a non-empty X of [A-Z0-9] and "_"; a template of n question marks does so
\* for the X of n characters; names are compared in upper case
GroupsNamed(pp, secretName) ==
    LET name == ToUpper(secretName)
        lead == pp.NormalizedBase \o << "_" >>
        from == Len(lead) + 1
        span == ClassRun(name, from)
        fits == /\ HasPrefix(name, lead)
                /\ span >= 1
                /\ from + span <= Len(name)
                /\ name[from + span] = "_"
    IN  IF ~pp.IsTemplate
        THEN IF HasPrefix(name, lead) THEN {pp.NormalizedBase} ELSE {}
        ELSE IF /\ fits
                /\ \/ pp.Priority = 50
                   \/ pp.Priority > 100 /\ span = pp.Priority - 100
        THEN {lead \o SubSeq(name, from, from + span - 1)}
        ELSE {}

\* the patterns of the list that name a group for the secret name
MatchingPatterns(patterns, secretName) ==
    { pp \in { ParsePrefixPattern(patterns[k]) : k \in 1..Len(patterns) }
               \ {NilPrefixPattern, Panic} :
        GroupsNamed(pp, secretName) # {} }

\* the group names given by the matching patterns of the highest priority,
\* "General" when no pattern matches
BestGroups(patterns, secretName) ==
    LET m == MatchingPatterns(patterns, secretName)
    IN  IF m = {} THEN {General}
        ELSE UNION { GroupsNamed(pp, secretName) :
                       pp \in {q \in m : \A r \in m : r.Priority <= q.Priority} }

\* how many times x occurs in the sequence
CountIn(seq, x) == Cardinality({k \in 1..Len(seq) : seq[k] = x})

\* the groups of the result that hold the secret
GroupsHolding(secret) ==
    { g \in DOMAIN gGroups.Groups : CountIn(gGroups.Groups[g], secret) > 0 }

\* C29: GroupSecrets partitions its input: for every secret list and pattern
\* list there is a result, in which every input secret is in exactly one
\* group, as many times as it is in the input, and that group is the one
\* named by a matching pattern of the highest priority (fixed-length
\* template over wildcard template over plain prefix), or "General" when no
\* pattern matches; the groups hold nothing but input secrets, no group is
\* empty, and "General" is absent when every secret matched a pattern.
C29_GroupSecretsPartitions ==
    Grouped =>
        /\ gGroups # Panic
        /\ \A k \in 1..Len(gSecrets) :
               \E g \in BestGroups(gPatterns, gSecrets[k].Name) :
                   /\ GroupsHolding(gSecrets[k]) = {g}
                   /\ CountIn(gGroups.Groups[g], gSecrets[k])
                          = CountIn(gSecrets, gSecrets[k])
        /\ \A g \in DOMAIN gGroups.Groups :
               /\ Len(gGroups.Groups[g]) > 0
               /\ \A k \in 1..Len(gGroups.Groups[g]) :
                      CountIn(gSecrets, gGroups.Groups[g][k]) > 0
        /\ (\A k \in 1..Len(gSecrets) :
                MatchingPatterns(gPatterns, gSecrets[k].Name) # {})
               => General \notin DOMAIN gGroups.Groups
        /\ gGroups.Patterns = gPatterns

====
